---------------------------- MODULE Spec2Model ----------------------------
(***************************************************************************)
(* Control de Paquetes (src/app.py): the date utilities, the business-hour *)
(* engine, the expected-hours model and the CRUD handlers that write the   *)
(* "paquetes" sheet.                                                       *)
(*                                                                         *)
(* Representation.                                                         *)
(*  - A text (a Python str) that may hold a date is a sequence of string   *)
(*    tokens: "2025-06-02" is <<"2025","-","06","-","02">>, "2/6/2025" is  *)
(*    <<"2","/","6","/","2025">>, the empty string is <<>>.  Python's None *)
(*    is the one-token sequence PyNone, distinct from the text "None".     *)
(*  - A date (datetime.date) is <<y, m, d>>; "no date" (None) is <<>>.     *)
(*  - An instant (datetime.datetime) is <<date, minuteOfDay>>.             *)
(*  - Hours inside business_hours_between are counted in ticks of 1/300 h  *)
(*    (one minute = 5 ticks, 0.01 h = 3 ticks); results of round(x, 2) are *)
(*    integers counting hundredths of an hour.                             *)
(***************************************************************************)
EXTENDS Integers, Sequences, FiniteSets, TLC

VARIABLES
    sheet,      \* the rows of worksheet "paquetes" below the header, as stored
    today,      \* datetime.now().date()
    msg,        \* the st.warning / st.info text on the page after the last run
    HOLIDAYS,   \* set(st.secrets.get("HOLIDAYS", [])), fixed at start
    call        \* last call of a pure function: [fn, args, res]

vars == <<sheet, today, msg, HOLIDAYS, call>>

---------------------------------------------------------------------------
(* Parameters (src/app.py:15-30) *)

ESTADOS_VALIDOS == <<"CAMPO", "ENTREGAS", "JURIDICO", "POSTCAMPO">>
ZONAS_VALIDAS == <<"URBANO", "RURAL", "MIXTO">>
FASE_ORDEN == ESTADOS_VALIDOS

WORK_START == <<"08", ":", "00">>
WORK_END == <<"16", ":", "30">>
\* 8.5 h in ticks of 1/300 h
WORK_HOURS == 85 * 30

\* hours per predio as exact fractions <<numerator, denominator>>
RATIOS_H_PREDIO ==
    [CAMPO |-> <<5 * 85, 300>>,     \* (5*8.5)/30.0
     ENTREGAS |-> <<85, 800>>,      \* 8.5/80.0
     JURIDICO |-> <<85, 300>>,      \* 8.5/30.0
     POSTCAMPO |-> <<10, 44>>]      \* 1.0/4.4

\* minimum hours per phase, in hundredths of an hour
MIN_HORAS == [CAMPO |-> 100, ENTREGAS |-> 50, JURIDICO |-> 50, POSTCAMPO |-> 50]

---------------------------------------------------------------------------
(* Python values *)

PyNone == <<"<None>">>
NoDate == <<>>

\* str(x) as DataFrame.astype(str) applies it to a cell: None becomes "None"
PyStr(x) == IF x = PyNone THEN <<"None">> ELSE x

\* truthiness of a text or None
Truthy(x) == x # PyNone /\ x # <<>>

\* str.strip() on a token sequence: blanks at both ends are dropped
RECURSIVE LStrip(_)
LStrip(s) == IF s # <<>> /\ Head(s) = " " THEN LStrip(Tail(s)) ELSE s

RECURSIVE RStrip(_)
RStrip(s) ==
    IF s # <<>> /\ s[Len(s)] = " " THEN RStrip(SubSeq(s, 1, Len(s) - 1)) ELSE s

Strip(s) == RStrip(LStrip(s))

---------------------------------------------------------------------------
(* datetime: the lexical tables of strptime / strftime and the calendar *)

Pad2 == <<"01", "02", "03", "04", "05", "06", "07", "08", "09", "10",
          "11", "12", "13", "14", "15", "16", "17", "18", "19", "20",
          "21", "22", "23", "24", "25", "26", "27", "28", "29", "30", "31">>
NoPad == <<"1", "2", "3", "4", "5", "6", "7", "8", "9", "10",
           "11", "12", "13", "14", "15", "16", "17", "18", "19", "20",
           "21", "22", "23", "24", "25", "26", "27", "28", "29", "30", "31">>
\* the %Y tokens of the years 2024..2026
Year4 == <<"2024", "2025", "2026">>

\* the number a one- or two-digit token spells (%d, %m, %H, %M, int());
\* 0 for "00" and for a token that spells no number
TokNum(t) ==
    IF \E i \in 1..31 : Pad2[i] = t THEN CHOOSE i \in 1..31 : Pad2[i] = t
    ELSE IF \E i \in 1..31 : NoPad[i] = t THEN CHOOSE i \in 1..31 : NoPad[i] = t
    ELSE 0

\* the year a %Y token (exactly four digits) spells, 0 when none
TokYear(t) ==
    IF \E i \in 1..Len(Year4) : Year4[i] = t
    THEN 2023 + (CHOOSE i \in 1..Len(Year4) : Year4[i] = t)
    ELSE 0

IsLeap(y) == y % 4 = 0 /\ (y % 100 # 0 \/ y % 400 = 0)

DaysInMonth(y, m) ==
    IF m = 2 THEN (IF IsLeap(y) THEN 29 ELSE 28)
    ELSE IF m \in {4, 6, 9, 11} THEN 30 ELSE 31

RECURSIVE DaysBeforeMonth(_, _)
DaysBeforeMonth(y, m) ==
    IF m = 1 THEN 0 ELSE DaysBeforeMonth(y, m - 1) + DaysInMonth(y, m - 1)

\* date.toordinal()
ToOrdinal(d) ==
    LET y1 == d[1] - 1
    IN  y1 * 365 + (y1 \div 4) - (y1 \div 100) + (y1 \div 400)
        + DaysBeforeMonth(d[1], d[2]) + d[3]

\* date.weekday(): 0 = Monday ... 6 = Sunday
Weekday(d) == (ToOrdinal(d) + 6) % 7

\* d1 < d2 on dates
DateLT(d1, d2) ==
    \/ d1[1] < d2[1]
    \/ d1[1] = d2[1] /\ d1[2] < d2[2]
    \/ d1[1] = d2[1] /\ d1[2] = d2[2] /\ d1[3] < d2[3]

\* d + timedelta(days=1)
NextDay(d) ==
    IF d[3] < DaysInMonth(d[1], d[2]) THEN <<d[1], d[2], d[3] + 1>>
    ELSE IF d[2] < 12 THEN <<d[1], d[2] + 1, 1>>
    ELSE <<d[1] + 1, 1, 1>>

\* date(y, m, d) as strptime builds it: <<>> when the fields are no date
MkDate(y, m, d) ==
    IF y > 0 /\ m \in 1..12 /\ d >= 1 /\ d <= DaysInMonth(y, m)
    THEN <<y, m, d>> ELSE NoDate

\* datetime.strptime(s, fmt).date() for the three formats; <<>> on ValueError
StrpIso(s) ==
    IF Len(s) = 5 /\ s[2] = "-" /\ s[4] = "-"
    THEN MkDate(TokYear(s[1]), TokNum(s[3]), TokNum(s[5])) ELSE NoDate

StrpDMY(s) ==
    IF Len(s) = 5 /\ s[2] = "/" /\ s[4] = "/"
    THEN MkDate(TokYear(s[5]), TokNum(s[3]), TokNum(s[1])) ELSE NoDate

StrpMDY(s) ==
    IF Len(s) = 5 /\ s[2] = "/" /\ s[4] = "/"
    THEN MkDate(TokYear(s[5]), TokNum(s[1]), TokNum(s[3])) ELSE NoDate

\* d.strftime("%Y-%m-%d")
Strftime(d) == <<Year4[d[1] - 2023], "-", Pad2[d[2]], "-", Pad2[d[3]]>>

---------------------------------------------------------------------------
(* Date utilities (src/app.py:33-57) *)

parse_fecha(s) ==
    IF ~Truthy(s) THEN NoDate
    ELSE LET t == Strip(s)
         IN  IF StrpIso(t) # NoDate THEN StrpIso(t)
             ELSE IF StrpDMY(t) # NoDate THEN StrpDMY(t)
             ELSE StrpMDY(t)

\* results of a call that may raise
Ok(v) == [ok |-> TRUE, val |-> v, err |-> ""]
Raise(e) == [ok |-> FALSE, val |-> <<>>, err |-> e]

\* message texts are kept in ASCII
ERR_FORMATO == "Fecha invalida. Use AAAA-MM-DD o DD/MM/AAAA."
ERR_ORDEN == "La salida no puede ser antes de la entrada."
ERR_TYPE == "'<' not supported between instances of 'datetime.date' and 'NoneType'"

norm_fecha_txt(s) ==
    IF s = PyNone \/ Strip(s) = <<>> THEN Ok(PyNone)
    ELSE IF parse_fecha(s) = NoDate THEN Raise(ERR_FORMATO)
    ELSE Ok(Strftime(parse_fecha(s)))

\* validar_fechas with the order test written <= (equal dates rejected)
validar_fechas_le(fent_txt, fsal_txt) ==
    LET ent == norm_fecha_txt(fent_txt)
        sal == IF Truthy(fsal_txt) THEN norm_fecha_txt(fsal_txt) ELSE Ok(PyNone)
    IN  IF ~ent.ok THEN ent
        ELSE IF ~sal.ok THEN sal
        ELSE LET d_ent == parse_fecha(ent.val)
                 d_sal == IF Truthy(sal.val) THEN parse_fecha(sal.val) ELSE NoDate
             IN  IF d_sal = NoDate THEN Ok(<<ent.val, sal.val>>)
                 ELSE IF d_ent = NoDate THEN Raise(ERR_TYPE)
                 ELSE IF DateLT(d_sal, d_ent) \/ d_sal = d_ent THEN Raise(ERR_ORDEN)
                 ELSE Ok(<<ent.val, sal.val>>)

validar_fechas(fent_txt, fsal_txt) ==
    LET ent == norm_fecha_txt(fent_txt)
        sal == IF Truthy(fsal_txt) THEN norm_fecha_txt(fsal_txt) ELSE Ok(PyNone)
    IN  IF ~ent.ok THEN ent
        ELSE IF ~sal.ok THEN sal
        ELSE LET f_ent == ent.val
                 f_sal == sal.val
                 d_ent == parse_fecha(f_ent)
                 d_sal == IF Truthy(f_sal) THEN parse_fecha(f_sal) ELSE NoDate
             IN  IF d_sal = NoDate THEN Ok(<<f_ent, f_sal>>)
                 ELSE IF d_ent = NoDate THEN Raise(ERR_TYPE)
                 ELSE IF DateLT(d_sal, d_ent) THEN Raise(ERR_ORDEN)
                 ELSE Ok(<<f_ent, f_sal>>)

---------------------------------------------------------------------------
(* Hours logic (src/app.py:60-100) *)

\* datetime.strptime(hhmm, "%H:%M").time(), as the minute of the day
_t(hhmm) == TokNum(hhmm[1]) * 60 + TokNum(hhmm[3])
HORA_INICIO == _t(WORK_START)
HORA_FIN == _t(WORK_END)

is_business_day(d) ==
    IF Weekday(d) >= 5 THEN FALSE
    ELSE IF Strftime(d) \in HOLIDAYS THEN FALSE
    ELSE TRUE

\* an instant is <<date, minute of the day>>; NoInstant is None
NoInstant == <<>>
Combine(d, minute) == <<d, minute>>

InstantLT(a, b) == DateLT(a[1], b[1]) \/ (a[1] = b[1] /\ a[2] < b[2])
InstantLE(a, b) == a = b \/ InstantLT(a, b)

clamp_to_workday(dt) ==
    LET start == Combine(dt[1], HORA_INICIO)
        end == Combine(dt[1], HORA_FIN)
    IN  IF InstantLT(dt, start) THEN start
        ELSE IF InstantLT(end, dt) THEN end
        ELSE dt

\* round(p/q, 2-or-0 digits) of an exact non-negative fraction: nearest
\* integer to p/q, ties to even
RoundHalfEven(p, q) ==
    LET f == p \div q
        r == p % q
    IN  IF 2 * r < q THEN f
        ELSE IF 2 * r > q THEN f + 1
        ELSE IF f % 2 = 0 THEN f ELSE f + 1

\* the while loop of business_hours_between: total in ticks
RECURSIVE FullDays(_, _, _)
FullDays(cur, endDate, total) ==
    IF DateLT(cur, endDate)
    THEN FullDays(NextDay(cur), endDate,
                  IF is_business_day(cur) THEN total + WORK_HOURS ELSE total)
    ELSE total

\* EndDayPart without the test that the end day is a business day
EndDayPart_cualquierDia(end_dt) ==
    LET end_dt_c == clamp_to_workday(end_dt)
        delta == (end_dt_c[2] - HORA_INICIO) * 5
    IN  IF delta > 0
        THEN (IF delta < WORK_HOURS THEN delta ELSE WORK_HOURS)
        ELSE 0

\* the partial contribution of the end day, in ticks
EndDayPart(end_dt) ==
    IF is_business_day(end_dt[1])
    THEN LET end_dt_c == clamp_to_workday(end_dt)
             delta == (end_dt_c[2] - HORA_INICIO) * 5
         IN  IF delta > 0
             THEN (IF delta < WORK_HOURS THEN delta ELSE WORK_HOURS)
             ELSE 0
    ELSE 0

\* result in hundredths of an hour
business_hours_between(d0, end_dt) ==
    IF d0 = NoDate \/ end_dt = NoInstant THEN 0
    ELSE RoundHalfEven(FullDays(d0, end_dt[1], 0) + EndDayPart(end_dt), 3)

\* a Python argument: an int, None, or a str
PyInt(i) == [t |-> "int", v |-> i, s |-> ""]
PyNoneArg == [t |-> "None", v |-> 0, s |-> ""]
PyStrArg(x) == [t |-> "str", v |-> 0, s |-> x]

\* str.upper() on the phase names used
Upper(s) ==
    IF s \in {"campo", "Campo"} THEN "CAMPO"
    ELSE IF s = "entregas" THEN "ENTREGAS"
    ELSE IF s = "juridico" THEN "JURIDICO"
    ELSE IF s = "postcampo" THEN "POSTCAMPO"
    ELSE s

\* int(n or 0): a result that may raise ValueError
IntOrZero(n) ==
    IF n.t = "None" THEN Ok(0)
    ELSE IF n.t = "int" THEN Ok(n.v)
    ELSE IF n.s = "" THEN Ok(0)
    ELSE IF TokNum(n.s) # 0 THEN Ok(TokNum(n.s))
    ELSE Raise("invalid literal for int() with base 10")

IsFase(f) == f \in {ESTADOS_VALIDOS[i] : i \in 1..Len(ESTADOS_VALIDOS)}

\* RATIOS_H_PREDIO.get(fase, 0.0) and MIN_HORAS.get(fase, 0.0)
RatioOf(f) == IF IsFase(f) THEN RATIOS_H_PREDIO[f] ELSE <<0, 1>>
MinOf(f) == IF IsFase(f) THEN MIN_HORAS[f] ELSE 0

\* result: Ok(hundredths of an hour) or the ValueError of int()
expected_hours(fase, n) ==
    LET f == Upper(IF fase.t = "None" THEN "" ELSE fase.s)
        c == IntOrZero(n)
    IN  IF ~c.ok THEN c
        ELSE LET k == IF c.val > 0 THEN c.val ELSE 0
                 r == RatioOf(f)
                 \* h = n * ratio as the fraction p/q hours
                 p == k * r[1]
                 q == r[2]
                 \* max(h, minimum), in hundredths as the fraction hp/hq
                 useMin == 100 * p < MinOf(f) * q
             IN  Ok(IF useMin THEN MinOf(f) ELSE RoundHalfEven(100 * p, q))

---------------------------------------------------------------------------
(* The pure functions, called on bounded inputs *)

\* bounds of the inputs
MaxSpan == 6
MaxN == 6

T(a, b, c, d, e) == <<a, b, c, d, e>>

\* texts a form field or a cell can hold
Textos ==
    { <<>>, <<" ">>, <<"abc">>, <<"None">>,
      T("2025", "-", "06", "-", "01"), T("2025", "-", "06", "-", "10"),
      T("2025", "-", "6", "-", "2"), <<" ", "2025", "-", "06", "-", "02", " ">>,
      T("2025", "-", "02", "-", "30"), T("25", "-", "06", "-", "02"),
      T("02", "/", "06", "/", "2025"), T("06", "/", "13", "/", "2025"),
      T("13", "/", "06", "/", "2025"), T("30", "/", "02", "/", "2025"),
      T("29", "/", "2", "/", "2024") }

\* date d plus k days
RECURSIVE PlusDays(_, _)
PlusDays(d, k) == IF k = 0 THEN d ELSE PlusDays(NextDay(d), k - 1)

\* Friday 2025-05-30 and the days after it
CalcBase == <<2025, 5, 30>>
CalcDates == {PlusDays(CalcBase, k) : k \in 0..MaxSpan}
CalcMinutes == {0, 479, 480, 481, 600, 990, 991, 1439}
CalcInstants == {Combine(d, m) : d \in CalcDates, m \in CalcMinutes}

\* the HOLIDAYS secret: a canonical entry and one that is not zero-padded
HolidayChoices == { T("2025", "-", "06", "-", "03"), T("2025", "-", "6", "-", "4") }

FaseArgs ==
    {PyStrArg(f) : f \in {"CAMPO", "ENTREGAS", "JURIDICO", "POSTCAMPO",
                          "campo", "Campo", "OTRA", ""}} \cup {PyNoneArg}
CantidadArgs ==
    {PyInt(i) : i \in (-2..MaxN) \cup {30, 80}}
    \cup {PyNoneArg, PyStrArg(""), PyStrArg("7"), PyStrArg("abc")}

\* each run of the calculator applies one function to one input
NoCall == [fn |-> "", args |-> <<>>, res |-> <<>>]

CallValidarFechas ==
    /\ call = NoCall
    /\ \E e \in Textos \cup {PyNone}, x \in Textos \cup {PyNone} :
          call' = [fn |-> "validar_fechas", args |-> <<e, x>>,
                   res |-> validar_fechas(e, x)]
    /\ UNCHANGED <<sheet, today, msg, HOLIDAYS>>

CallBusinessHours ==
    /\ call = NoCall
    /\ \E d0 \in CalcDates \cup {NoDate}, e \in CalcInstants \cup {NoInstant} :
          call' = [fn |-> "business_hours_between", args |-> <<d0, e>>,
                   res |-> business_hours_between(d0, e)]
    /\ UNCHANGED <<sheet, today, msg, HOLIDAYS>>

CallExpectedHours ==
    /\ call = NoCall
    /\ \E f \in FaseArgs, n \in CantidadArgs :
          call' = [fn |-> "expected_hours", args |-> <<f, n>>,
                   res |-> expected_hours(f, n)]
    /\ UNCHANGED <<sheet, today, msg, HOLIDAYS>>

\* datetime.now().date() of every run of the session: Tuesday 2025-06-03
Today0 == <<2025, 6, 3>>

InitCalc ==
    /\ sheet = <<>>
    /\ today = Today0
    /\ msg = ""
    /\ HOLIDAYS \in SUBSET HolidayChoices
    /\ call = NoCall

NextCalc == CallValidarFechas \/ CallBusinessHours \/ CallExpectedHours

SpecCalc == InitCalc /\ [][NextCalc]_vars

---------------------------------------------------------------------------
(* Google Sheets I/O (src/app.py:133-151) *)

\* load_df: every text column is read back as str, n_predios as int; the
\* cells were written as str, so the rows are read as stored (the texts used
\* here are none that get_all_records would read as a number)
load_df == sheet

\* the row save_df writes for a DataFrame row: astype(str) on every column
StrRow(r) ==
    [r EXCEPT !.fecha_entrada = PyStr(r.fecha_entrada),
              !.fecha_salida = PyStr(r.fecha_salida)]

\* save_df: the sheet is cleared and rewritten from the DataFrame
save_df(df) == [i \in 1..Len(df) |-> StrRow(df[i])]

---------------------------------------------------------------------------
(* The form and the CRUD handlers (src/app.py:181-287) *)

MSG_ID == "El ID es obligatorio."
MSG_LOTE == "El Lote es obligatorio."
MSG_MUNI == "El Municipio es obligatorio."
MSG_DUP == "Ya existe ese evento (ID + fase + fecha_entrada)."
MSG_RANGO == "Indice fuera de rango."
MSG_FASE == "Fase no valida."
MSG_ULTIMA == "POSTCAMPO es la ultima fase."
MSG_DUP_NEXT == "Ya existe la siguiente fase con esa fecha de entrada."

\* _validar with the error of validar_fechas swallowed: the texts go on as typed
_validar_sinFechas(in_id, in_lote, in_muni, in_fent, in_fsal) ==
    IF in_id = "" THEN [ok |-> FALSE, msg |-> MSG_ID, data |-> <<>>]
    ELSE IF in_lote = "" THEN [ok |-> FALSE, msg |-> MSG_LOTE, data |-> <<>>]
    ELSE IF in_muni = "" THEN [ok |-> FALSE, msg |-> MSG_MUNI, data |-> <<>>]
    ELSE LET v == validar_fechas(in_fent, in_fsal)
         IN  IF ~v.ok THEN [ok |-> TRUE, msg |-> "", data |-> <<in_fent, in_fsal>>]
             ELSE [ok |-> TRUE, msg |-> "", data |-> v.val]

\* returns (ok, data): data is the message, or the pair (f_ent, f_sal)
_validar(in_id, in_lote, in_muni, in_fent, in_fsal) ==
    IF in_id = "" THEN [ok |-> FALSE, msg |-> MSG_ID, data |-> <<>>]
    ELSE IF in_lote = "" THEN [ok |-> FALSE, msg |-> MSG_LOTE, data |-> <<>>]
    ELSE IF in_muni = "" THEN [ok |-> FALSE, msg |-> MSG_MUNI, data |-> <<>>]
    ELSE LET v == validar_fechas(in_fent, in_fsal)
         IN  IF ~v.ok THEN [ok |-> FALSE, msg |-> v.err, data |-> <<>>]
             ELSE [ok |-> TRUE, msg |-> "", data |-> v.val]

\* the row the form describes, with the validated dates
FormRow(f, f_ent, f_sal) ==
    [id_paquete |-> f.in_id, lote |-> f.in_lote, municipio |-> f.in_muni,
     estado |-> f.in_estado, n_predios |-> f.in_predios, zona |-> f.in_zona,
     fecha_entrada |-> f_ent, fecha_salida |-> f_sal]

\* df with the row at 0-based index idx replaced (df.loc[idx, cols] = ...)
SetRow(df, idx, r) == [df EXCEPT ![idx + 1] = r]

\* df.drop(index=idx).reset_index(drop=True)
DropRow(df, idx) == SubSeq(df, 1, idx) \o SubSeq(df, idx + 2, Len(df))

\* a run that ends in st.warning / st.info: nothing is written
Warn(m) == msg' = m /\ sheet' = sheet

\* a run that ends in save_df and st.experimental_rerun(): the page is
\* rebuilt by a run in which no button is pressed, so no message stays
Saved(df) == sheet' = save_df(df) /\ msg' = ""

\* the form fields pressed with a button
FormEstados == {"CAMPO"}
FormEntradas == {<<>>, <<"abc">>, T("2025", "-", "06", "-", "02"),
                 T("04", "/", "06", "/", "2025")}
FormSalidas == {<<>>, <<"abc">>, T("2025", "-", "06", "-", "03")}

FormBase ==
    [in_id |-> "A", in_lote |-> "L1", in_muni |-> "M1", in_estado |-> "CAMPO",
     in_predios |-> 3, in_zona |-> "URBANO",
     in_fent |-> T("2025", "-", "06", "-", "02"), in_fsal |-> <<>>]

Forms ==
    {[FormBase EXCEPT !.in_estado = e, !.in_fent = fe, !.in_fsal = fs] :
        e \in FormEstados, fe \in FormEntradas, fs \in FormSalidas}
    \cup {[FormBase EXCEPT !.in_id = ""], [FormBase EXCEPT !.in_lote = ""],
          [FormBase EXCEPT !.in_muni = ""]}

\* _validar() of each form (the call of the handlers, computed once)
ValidarForm ==
    [f \in Forms |-> _validar(f.in_id, f.in_lote, f.in_muni, f.in_fent, f.in_fsal)]

Incluir(f) ==
    LET df == load_df
        v == ValidarForm[f]
    IN  /\ IF ~v.ok THEN Warn(v.msg)
           ELSE LET f_ent == v.data[1]
                    f_sal == v.data[2]
                    dup == \E i \in 1..Len(df) :
                              /\ df[i].id_paquete = f.in_id
                              /\ df[i].estado = f.in_estado
                              /\ df[i].fecha_entrada = f_ent
                IN  IF dup THEN Warn(MSG_DUP)
                    ELSE Saved(Append(df, FormRow(f, f_ent, f_sal)))
        /\ UNCHANGED <<today, HOLIDAYS, call>>

Modificar(idx_mod, f) ==
    LET df == load_df
        v == ValidarForm[f]
    IN  /\ IF idx_mod >= Len(df) THEN Warn(MSG_RANGO)
           ELSE IF ~v.ok THEN Warn(v.msg)
           ELSE Saved(SetRow(df, idx_mod, FormRow(f, v.data[1], v.data[2])))
        /\ UNCHANGED <<today, HOLIDAYS, call>>

Borrar(idx_del) ==
    LET df == load_df
    IN  /\ IF idx_del >= Len(df) THEN Warn(MSG_RANGO)
           ELSE Saved(DropRow(df, idx_del))
        /\ UNCHANGED <<today, HOLIDAYS, call>>

SalidaHoy(idx_out) ==
    LET df == load_df
    IN  /\ IF idx_out >= Len(df) THEN Warn(MSG_RANGO)
           ELSE Saved(SetRow(df, idx_out,
                             [df[idx_out + 1] EXCEPT
                                 !.fecha_salida = Strftime(today)]))
        /\ UNCHANGED <<today, HOLIDAYS, call>>

\* FASE_ORDEN.index(fase), 1-based
FaseIndex(fase) == CHOOSE i \in 1..Len(FASE_ORDEN) : FASE_ORDEN[i] = fase

SiguienteFase(idx_next) ==
    LET df == load_df
    IN  /\ IF idx_next >= Len(df) THEN Warn(MSG_RANGO)
           ELSE LET row == df[idx_next + 1]
                    fase == row.estado
                IN  IF ~IsFase(fase) THEN Warn(MSG_FASE)
                    ELSE IF FaseIndex(fase) = Len(FASE_ORDEN) THEN Warn(MSG_ULTIMA)
                    ELSE LET fase_next == FASE_ORDEN[FaseIndex(fase) + 1]
                             f_ent == IF Truthy(row.fecha_salida)
                                      THEN row.fecha_salida
                                      ELSE Strftime(today)
                             dup == \E i \in 1..Len(df) :
                                       /\ df[i].id_paquete = row.id_paquete
                                       /\ df[i].estado = fase_next
                                       /\ df[i].fecha_entrada = f_ent
                         IN  IF dup THEN Warn(MSG_DUP_NEXT)
                             ELSE Saved(Append(df,
                                     [row EXCEPT !.estado = fase_next,
                                                 !.fecha_entrada = f_ent,
                                                 !.fecha_salida = PyNone]))
        /\ UNCHANGED <<today, HOLIDAYS, call>>

---------------------------------------------------------------------------
(* The view and its idx column (src/app.py:289-309) *)

\* _pasa(r) under filters f (an empty filter lets every row pass)
_pasa(f, r) ==
    IF f.f_muni # "" /\ r.municipio # f.f_muni THEN FALSE
    ELSE IF f.f_estado # "" /\ r.estado # f.f_estado THEN FALSE
    ELSE IF f.f_zona # "" /\ r.zona # f.f_zona THEN FALSE
    ELSE IF f.f_fent # <<>> /\ r.fecha_entrada # f.f_fent THEN FALSE
    ELSE TRUE

\* whether row r is in the view
EnVista(f, r) == IF f.f_id # "" THEN r.id_paquete = f.f_id ELSE _pasa(f, r)

\* the 0-based df indices of the rows of the view, in order: after
\* reset_index(drop=True) the k-th of them is shown with idx = k
RECURSIVE VistaDesde(_, _, _)
VistaDesde(df, f, i) ==
    IF i > Len(df) THEN <<>>
    ELSE IF EnVista(f, df[i]) THEN <<i - 1>> \o VistaDesde(df, f, i + 1)
    ELSE VistaDesde(df, f, i + 1)

Vista(f) == VistaDesde(load_df, f, 1)

---------------------------------------------------------------------------
(* The application: one step per button press *)

MaxRows == 2

Indices == 0..MaxRows

\* the sheet is kept within MaxRows rows
Cabe == Len(sheet') <= MaxRows

PulsarIncluir == \E f \in Forms : Incluir(f) /\ Cabe
PulsarModificar == \E i \in Indices, f \in Forms : Modificar(i, f)
PulsarBorrar == \E i \in Indices : Borrar(i)
PulsarSalidaHoy == \E i \in Indices : SalidaHoy(i)
PulsarSiguienteFase == \E i \in Indices : SiguienteFase(i) /\ Cabe

\* the store is empty and the session runs on the day Today0
Init ==
    /\ sheet = <<>>
    /\ today = Today0
    /\ msg = ""
    /\ HOLIDAYS = {}
    /\ call = NoCall

Next ==
    \/ PulsarIncluir
    \/ PulsarModificar
    \/ PulsarBorrar
    \/ PulsarSalidaHoy
    \/ PulsarSiguienteFase

Spec == Init /\ [][Next]_vars

---------------------------------------------------------------------------
(* Properties of the stored rows *)

\* a text that is a zero-padded YYYY-MM-DD date
EsCanonica(t) == StrpIso(t) # NoDate /\ Strftime(StrpIso(t)) = t

\* a text that is None, empty or only blanks
EsBlanco(t) == t = PyNone \/ Strip(t) = <<>>

TieneSalida(r) == parse_fecha(r.fecha_salida) # NoDate
TieneEntrada(r) == parse_fecha(r.fecha_entrada) # NoDate

Clave(r) == <<r.id_paquete, r.estado, r.fecha_entrada>>

\* C1: every stored row that has an exit date has exit date >= entry date.
C1_SalidaNoAntesDeEntrada ==
    \A i \in 1..Len(sheet) :
        (TieneSalida(sheet[i]) /\ TieneEntrada(sheet[i]))
            => ~DateLT(parse_fecha(sheet[i].fecha_salida),
                       parse_fecha(sheet[i].fecha_entrada))

\* the forms whose date fields make validar_fechas raise
FormsFechasMalas == {f \in Forms : ~validar_fechas(f.in_fent, f.in_fsal).ok}

\* C2: Incluir or Modificar pressed with date fields for which validar_fechas
\* raises shows a message and leaves the stored rows exactly as they were.
C2_FechasMalasNoEscriben ==
    [][\/ (sheet' = sheet /\ msg' # "")
       \/ ~\E f \in FormsFechasMalas :
              Incluir(f) \/ \E i \in Indices : Modificar(i, f)]_vars

\* C2 witness: a run rejected on its dates, with rows in the store
C2_Witness ==
    /\ msg \in {ERR_FORMATO, ERR_ORDEN, ERR_TYPE}
    /\ sheet # <<>>

\* the forms whose entry date is blank
FormsEntradaBlanca == {f \in Forms : EsBlanco(f.in_fent)}

\* C3: every row Incluir or Modificar writes has a canonical YYYY-MM-DD
\* fecha_entrada, and a form with a blank entry date writes nothing.
C3_EntradaObligatoria ==
    [][/\ \A f \in FormsEntradaBlanca : \A i \in Indices :
             (Incluir(f) \/ Modificar(i, f)) => sheet' = sheet
       /\ \A f \in Forms :
             (Incluir(f) /\ sheet' # sheet)
                 => EsCanonica(sheet'[Len(sheet')].fecha_entrada)
       /\ \A f \in Forms : \A i \in 0..(Len(sheet) - 1) :
             (Modificar(i, f) /\ sheet' # sheet)
                 => EsCanonica(sheet'[i + 1].fecha_entrada)]_vars

\* C8: no two stored rows share the event key (id_paquete, estado,
\* fecha_entrada).
C8_ClaveUnica ==
    \A i, j \in 1..Len(sheet) : i # j => Clave(sheet[i]) # Clave(sheet[j])

\* the immediate successor of a phase in CAMPO, ENTREGAS, JURIDICO, POSTCAMPO
Sucesora == [CAMPO |-> "ENTREGAS", ENTREGAS |-> "JURIDICO", JURIDICO |-> "POSTCAMPO"]

\* C9: Siguiente fase on an in-range row r of phase CAMPO, ENTREGAS or
\* JURIDICO appends exactly one row with r's id, lot, municipality, unit count
\* and zone, the successor phase, entry date r's exit date when r has one and
\* today's date otherwise, and no exit date, unless a row with that key
\* exists; every other row is unchanged, and in every other case storage is
\* unchanged.
C9_SiguienteFase ==
    [][\A i \in 0..(Len(sheet) - 1) :
          SiguienteFase(i) =>
            LET r == sheet[i + 1]
                entrada == IF TieneSalida(r) THEN r.fecha_salida
                           ELSE Strftime(today)
            IN  IF /\ r.estado \in DOMAIN Sucesora
                   /\ ~\E j \in 1..Len(sheet) :
                          Clave(sheet[j]) = <<r.id_paquete, Sucesora[r.estado], entrada>>
                THEN /\ Len(sheet') = Len(sheet) + 1
                     /\ SubSeq(sheet', 1, Len(sheet)) = sheet
                     /\ LET n == sheet'[Len(sheet')]
                        IN  /\ n.id_paquete = r.id_paquete
                            /\ n.lote = r.lote
                            /\ n.municipio = r.municipio
                            /\ n.n_predios = r.n_predios
                            /\ n.zona = r.zona
                            /\ n.estado = Sucesora[r.estado]
                            /\ n.fecha_entrada = entrada
                            /\ ~TieneSalida(n)
                ELSE sheet' = sheet]_vars

\* the filter widgets: their options are those the page offers for the rows
Filtros ==
    [f_id : {"", "A", "B"},
     f_muni : {""} \cup {sheet[i].municipio : i \in 1..Len(sheet)},
     f_estado : {""} \cup {ESTADOS_VALIDOS[i] : i \in 1..Len(ESTADOS_VALIDOS)},
     f_zona : {""} \cup {ZONAS_VALIDAS[i] : i \in 1..Len(ZONAS_VALIDAS)},
     f_fent : {<<>>} \cup {sheet[i].fecha_entrada : i \in 1..Len(sheet)}]

\* C10: under every combination of filters the idx shown for a row is the
\* index of that stored row, which is the row the handlers act on (df.loc[idx]).
C10_IdxIdentificaFila ==
    \A f \in Filtros : \A k \in 1..Len(Vista(f)) : Vista(f)[k] = k - 1

---------------------------------------------------------------------------
(* Properties of the pure functions *)

EsLlamada(fn) == call.fn = fn

\* C4: for a fixed start date, business_hours_between does not decrease as
\* the end instant increases (end instants before the start date included).
C4_Monotona ==
    (EsLlamada("business_hours_between") /\ call.args[1] # NoDate
        /\ call.args[2] # NoInstant)
    => \A e1 \in CalcInstants :
          InstantLE(e1, call.args[2])
              => business_hours_between(call.args[1], e1) <= call.res

\* the business days d with d0 <= d < hasta
DiasHabiles(d0, hasta) ==
    {d \in CalcDates : ~DateLT(d, d0) /\ DateLT(d, hasta) /\ is_business_day(d)}

\* minutes from the start of the work window to the minute clamped into it
MinutosEnVentana(m) ==
    IF m <= HORA_INICIO THEN 0
    ELSE IF m >= HORA_FIN THEN HORA_FIN - HORA_INICIO
    ELSE m - HORA_INICIO

\* the hours C5 describes, in ticks of 1/300 h
HorasC5(d0, e) ==
    WORK_HOURS * Cardinality(DiasHabiles(d0, e[1]))
    + (IF is_business_day(e[1]) THEN 5 * MinutosEnVentana(e[2]) ELSE 0)

EscenarioC5 == <<<<2025, 6, 2>>, <<<<2025, 6, 4>>, 600>>>>

\* the two scenarios as C5 states them: 10.5 h, and 2.0 h with the holiday
EjemplosC5Dichos ==
    (call.args = EscenarioC5)
        => /\ HOLIDAYS = {} => call.res = 1050
           /\ HOLIDAYS = {T("2025", "-", "06", "-", "03")} => call.res = 200

\* the two scenarios with the start day counted: 19.0 h, and 10.5 h
EjemplosC5 ==
    (call.args = EscenarioC5)
        => /\ HOLIDAYS = {} => call.res = 1900
           /\ HOLIDAYS = {T("2025", "-", "06", "-", "03")} => call.res = 1050

DiceC6(e, x, res, cubreBlanca) ==
    LET de == parse_fecha(e)
        dx == parse_fecha(x)
        orden == de # NoDate /\ dx # NoDate /\ DateLT(dx, de)
        formato == (~EsBlanco(e) /\ de = NoDate) \/ (~EsBlanco(x) /\ dx = NoDate)
    IN  /\ (~res.ok /\ res.err = ERR_ORDEN) <=> orden
        /\ formato => (~res.ok /\ res.err = ERR_FORMATO)
        /\ (~orden /\ ~formato /\ (cubreBlanca \/ ~EsBlanco(e)))
              => /\ res.ok
                 /\ EsCanonica(res.val[1])
                 /\ parse_fecha(res.val[1]) = de
                 /\ IF EsBlanco(x) THEN res.val[2] = PyNone
                    ELSE EsCanonica(res.val[2]) /\ parse_fecha(res.val[2]) = dx

\* C6 as stated: date-order error exactly when both parse and exit < entry,
\* invalid-format error for a non-blank text no format parses, and otherwise
\* the canonical entry with the canonical exit or none.
C6_ValidarFechas ==
    EsLlamada("validar_fechas")
        => DiceC6(call.args[1], call.args[2], call.res, TRUE)

\* C6 amended: the same, the "otherwise" case for a non-blank entry text.
C6_ValidarFechasConEntrada ==
    EsLlamada("validar_fechas")
        => DiceC6(call.args[1], call.args[2], call.res, FALSE)

\* C6 witness: the date-order error on ("2025-06-10", "2025-06-01")
C6_Witness ==
    /\ EsLlamada("validar_fechas")
    /\ call.args = <<T("2025", "-", "06", "-", "10"), T("2025", "-", "06", "-", "01")>>
    /\ ~call.res.ok /\ call.res.err = ERR_ORDEN

\* n coerced to a non-negative integer, non-numeric taken as 0
UnidadesC7(n) ==
    IF n.t = "int" THEN (IF n.v > 0 THEN n.v ELSE 0)
    ELSE IF n.t = "str" THEN TokNum(n.s)
    ELSE 0

\* C7: expected_hours never fails and returns max(n' * ratio, minimum) (to 2
\* decimals), the phase matched case-insensitively and an unknown phase
\* having ratio 0 and minimum 0; 42.5 for (CAMPO, 30), 0.5 for (ENTREGAS, 1).
C7_HorasEsperadas ==
    EsLlamada("expected_hours") =>
        LET f == Upper(IF call.args[1].t = "None" THEN "" ELSE call.args[1].s)
            k == UnidadesC7(call.args[2])
            r == RatioOf(f)
            h == IF 100 * k * r[1] < MinOf(f) * r[2] THEN MinOf(f)
                 ELSE RoundHalfEven(100 * k * r[1], r[2])
        IN  /\ call.res.ok
            /\ call.res.val = h
            /\ IsFase(f) => call.res.val >= MinOf(f)
            /\ ~IsFase(f) => call.res.val = 0
            /\ (f = "CAMPO" /\ k = 30) => call.res.val = 4250
            /\ (f = "ENTREGAS" /\ k = 1) => call.res.val = 50

=============================================================================
